---- MODULE Spec2Model ----
(***************************************************************************)
(* Packet acknowledgment engine of lightyear: PacketHeader,               *)
(* PacketHeaderManager and ReceiveBuffer of                               *)
(* lightyear/src/packet/header.rs.                                        *)
(*                                                                         *)
(* A u32 bitfield is represented by the set of the positions of its set   *)
(* bits (a subset of 0..31); a u16 packet id by an integer of 0..65535;   *)
(* an Option by a sequence of length 0 (None) or 1 (Some).                *)
(***************************************************************************)
EXTENDS Integers, Sequences, FiniteSets, TLC

\* ------------------------------------------------------------ constants

ACK_BITFIELD_SIZE == 32

CLEAR_UNACKED_PACKETS_DELAY == 5000

U16_MAX == 65535

U16_MODULUS == U16_MAX + 1

\* the depth of the send queue
MAX_SEND_PACKET_QUEUE_SIZE == 255

\* ------------------------------------------------------------ bounds

\* recv_packet calls made on the stand-alone receive buffer (SpecRecv)
MaxRecv == 5

\* packet ids one manager allocates in a run
MaxSends == 3

\* headers one manager processes in a run
MaxProcess == 2

\* packets B sends in a run of SpecNet
MaxReplies == 2

\* headers B processes in a run of SpecNet
MaxDeliver == 4

\* the clock stops advancing here
MaxTime == 5001

\* the clock of SpecLive stops here
MaxLiveTime == 7502

\* calls of buffer_send in SpecQueue
MaxBuffered == 257

\* messages, packets and clock of SpecReliable
MaxMessages == 1

MaxPackets == 2

MaxChanTime == 300

\* SpecHead: headers received and headers built by the manager
MaxHeadRecv == 3
MaxHeadSends == 3

\* ------------------------------------------------------------ inputs

Peers == {"A", "B"}

Other(p) == IF p = "A" THEN "B" ELSE "A"

\* ids handed to recv_packet on the stand-alone buffer: neighbours, a jump of
\* 32, 33 and 34, ids more than 32 behind, the ids of test_recv_buffer, ids
\* across the u16 wrap and an id half the id space away
RecvIds == {0, 1, 2, 3, 6, 34, 35, 36, 37, 49, 50, 70, 82, 32768, 65534, 65535}

\* ------------------------------------------------------------ PacketId

\* PacketId - PacketId -> i16: the wrapping difference a - b in -32768..32767
PacketIdSub(a, b) ==
    LET d == (a - b) % U16_MODULUS
    IN  IF d >= U16_MODULUS \div 2 THEN d - U16_MODULUS ELSE d

\* the least i16, the type of the difference
I16_MIN == -(U16_MODULUS \div 2)

\* u16::wrapping_add
WrappingAdd(a, b) == (a + b) % U16_MODULUS

\* u16::wrapping_sub
WrappingSub(a, b) == (a - b) % U16_MODULUS

\* ------------------------------------------------------------ ring buffer

\* ConstGenericRingBuffer::fill: the buffer filled to capacity with v
RingFill(v) == [k \in 1..ACK_BITFIELD_SIZE |-> v]

\* ConstGenericRingBuffer::push: a full buffer drops its oldest entry
RingPush(buf, v) ==
    IF Len(buf) = ACK_BITFIELD_SIZE THEN Append(Tail(buf), v) ELSE Append(buf, v)

\* mutant of RingPushN: the loop runs once more (0..diff.abs())
RingPushN_OneMore(buf, v, n) ==
    [j \in 1..Len(buf) |-> IF j + n + 1 <= Len(buf) THEN buf[j + n + 1] ELSE v]

RECURSIVE RingPushN(_, _, _)
\* n times push(v) (the test makes TLC evaluate a push before the next one)
RingPushN(buf, v, n) ==
    IF n <= 0 THEN buf
    ELSE LET next == RingPush(buf, v)
         IN  IF next = next THEN RingPushN(next, v, n - 1) ELSE buf

\* mutant of RingSignedIndex: the index counts from the oldest entry
RingSignedIndex_FromOldest(buf, index) == ((-index - 1) % Len(buf)) + 1

\* ConstGenericRingBuffer::get_mut_signed(index) for a negative index: -1 is
\* the entry pushed last; the position (from the oldest, 1-based) it names
RingSignedIndex(buf, index) == (index % Len(buf)) + 1

\* ------------------------------------------------------------ ReceiveBuffer

\* ReceiveBuffer::new
NewReceiveBuffer ==
    [last_recv_packet_id |-> <<>>, buffer |-> RingFill(FALSE)]

\* mutant of RecvPacket: a jump of more than 33 ids leaves the entries as they
\* are (no fill(false))
RecvPacket_KeepsBitsOnJump(rb, id) ==
    IF rb.last_recv_packet_id = <<>>
    THEN [rb EXCEPT !.last_recv_packet_id = <<id>>]
    ELSE LET bitfield_size == ACK_BITFIELD_SIZE
             diff == PacketIdSub(rb.last_recv_packet_id[1], id)
         IN  IF diff > bitfield_size
             THEN rb
             ELSE IF diff > 0
             THEN [rb EXCEPT !.buffer[RingSignedIndex(rb.buffer, -diff)] = TRUE]
             ELSE IF diff < 0
             THEN [last_recv_packet_id |-> <<id>>,
                   buffer |->
                       IF diff < -(bitfield_size + 1)
                       THEN rb.buffer
                       ELSE RingPushN(RingPush(rb.buffer, TRUE), FALSE, (-diff) - 1)]
             ELSE rb

\* mutant of RecvPacket: no early return for an id more than 32 behind
RecvPacket_NoStaleCheck(rb, id) ==
    IF rb.last_recv_packet_id = <<>>
    THEN [rb EXCEPT !.last_recv_packet_id = <<id>>]
    ELSE LET bitfield_size == ACK_BITFIELD_SIZE
             diff == PacketIdSub(rb.last_recv_packet_id[1], id)
         IN  IF diff > 0
             THEN [rb EXCEPT !.buffer[RingSignedIndex(rb.buffer, -diff)] = TRUE]
             ELSE IF diff < 0
             THEN [last_recv_packet_id |-> <<id>>,
                   buffer |->
                       IF diff < -(bitfield_size + 1)
                       THEN RingFill(FALSE)
                       ELSE RingPushN(RingPush(rb.buffer, TRUE), FALSE, (-diff) - 1)]
             ELSE rb

\* mutant of RecvPacket: an id behind the head, within the bitfield, becomes
\* the head
RecvPacket_BehindBecomesHead(rb, id) ==
    IF rb.last_recv_packet_id = <<>>
    THEN [rb EXCEPT !.last_recv_packet_id = <<id>>]
    ELSE LET bitfield_size == ACK_BITFIELD_SIZE
             diff == PacketIdSub(rb.last_recv_packet_id[1], id)
         IN  IF diff > bitfield_size
             THEN rb
             ELSE IF diff > 0
             THEN [rb EXCEPT !.buffer[RingSignedIndex(rb.buffer, -diff)] = TRUE,
                             !.last_recv_packet_id = <<id>>]
             ELSE IF diff < 0
             THEN [last_recv_packet_id |-> <<id>>,
                   buffer |->
                       IF diff < -(bitfield_size + 1)
                       THEN RingFill(FALSE)
                       ELSE RingPushN(RingPush(rb.buffer, TRUE), FALSE, (-diff) - 1)]
             ELSE rb

\* ReceiveBuffer::recv_packet: the buffer after receiving id
RecvPacket(rb, id) ==
    IF rb.last_recv_packet_id = <<>>
    THEN [rb EXCEPT !.last_recv_packet_id = <<id>>]
    ELSE LET bitfield_size == ACK_BITFIELD_SIZE
             diff == PacketIdSub(rb.last_recv_packet_id[1], id)
         IN  IF diff > bitfield_size
             THEN rb
             ELSE IF diff > 0
             THEN [rb EXCEPT !.buffer[RingSignedIndex(rb.buffer, -diff)] = TRUE]
             ELSE IF diff < 0
             THEN [last_recv_packet_id |-> <<id>>,
                   buffer |->
                       IF diff < -(bitfield_size + 1)
                       THEN RingFill(FALSE)
                       ELSE RingPushN(RingPush(rb.buffer, TRUE), FALSE, (-diff) - 1)]
             ELSE rb

\* mutant of RecvPacketPanics: diff.abs() is computed before the far-ahead test
RecvPacketPanics_AbsFirst(rb, id) ==
    /\ rb.last_recv_packet_id # <<>>
    /\ LET bitfield_size == ACK_BITFIELD_SIZE
           diff == PacketIdSub(rb.last_recv_packet_id[1], id)
       IN  IF diff > bitfield_size THEN FALSE
           ELSE IF diff > 0 THEN Len(rb.buffer) = 0
           ELSE IF diff < 0 THEN diff = I16_MIN
           ELSE FALSE

\* ReceiveBuffer::recv_packet panics: expect() on an empty ring buffer, or the
\* overflow of -diff or diff.abs() at the least i16
RecvPacketPanics(rb, id) ==
    /\ rb.last_recv_packet_id # <<>>
    /\ LET bitfield_size == ACK_BITFIELD_SIZE
           diff == PacketIdSub(rb.last_recv_packet_id[1], id)
       IN  IF diff > bitfield_size THEN FALSE
           ELSE IF diff > 0 THEN diff = I16_MIN \/ Len(rb.buffer) = 0
           ELSE IF diff < 0
           THEN IF diff < -(bitfield_size + 1) THEN FALSE ELSE diff = I16_MIN
           ELSE FALSE

\* mutant of GetBitfield: the mask starts from the right (the oldest entry
\* gives bit 0)
GetBitfield_FromRight(rb) ==
    {k - 1 : k \in {j \in 1..Len(rb.buffer) : rb.buffer[j]}}

\* ReceiveBuffer::get_bitfield: the k-th entry from the oldest gives bit 32 - k
GetBitfield(rb) ==
    {ACK_BITFIELD_SIZE - k : k \in {j \in 1..Len(rb.buffer) : rb.buffer[j]}}

\* ------------------------------------------------------------ PacketHeader

\* mutant of GetBitfieldBit: the bit one position higher
GetBitfieldBit_OffByOne(header, i) == (i + 1) \in header.ack_bitfield

\* PacketHeader::get_bitfield_bit: bit i of ack_bitfield
GetBitfieldBit(header, i) == i \in header.ack_bitfield

\* ------------------------------------------------------------ sent_packets_not_acked

\* HashMap::new
EmptyMap == [k \in {} |-> 0]

\* HashMap::insert: an entry under an existing key is replaced
MapInsert(m, k, v) == [x \in DOMAIN m \cup {k} |-> IF x = k THEN v ELSE m[x]]

\* mutant of MapRemove: the entries left get the send time 0
MapRemove_ResetsTimes(m, k) == [x \in DOMAIN m \ {k} |-> 0]

\* HashMap::remove
MapRemove(m, k) == [x \in DOMAIN m \ {k} |-> m[x]]

\* mutant of IsLost: an entry is dropped already at the delay
IsLost_AtDelay(now, time_sent) == now - time_sent >= CLEAR_UNACKED_PACKETS_DELAY

\* mutant of IsLost: the operands of the subtraction are exchanged
IsLost_Swapped(now, time_sent) == time_sent - now > CLEAR_UNACKED_PACKETS_DELAY

\* the closure of update: the entry sent at time_sent is dropped as lost
IsLost(now, time_sent) == now - time_sent > CLEAR_UNACKED_PACKETS_DELAY

\* mutant of UpdateSentPacketsNotAcked: the entry is reported and kept
UpdateSentPacketsNotAcked_KeepsEntry(m, packet_id) ==
    IF packet_id \in DOMAIN m
    THEN [map |-> m, ret |-> <<packet_id>>]
    ELSE [map |-> m, ret |-> <<>>]

\* mutant of UpdateSentPacketsNotAcked: no contains_key test, the id is
\* returned whether it is in the map or not
UpdateSentPacketsNotAcked_NoContainsKey(m, packet_id) ==
    [map |-> MapRemove(m, packet_id), ret |-> <<packet_id>>]

\* PacketHeaderManager::update_sent_packets_not_acked: the map afterwards and
\* the Option returned
UpdateSentPacketsNotAcked(m, packet_id) ==
    IF packet_id \in DOMAIN m
    THEN [map |-> MapRemove(m, packet_id), ret |-> <<packet_id>>]
    ELSE [map |-> m, ret |-> <<>>]

\* PacketHeader::get_bitfield_bit panics: `assert!(i < ACK_BITFIELD_SIZE)`
GetBitfieldBitPanics(i) == ~(i < ACK_BITFIELD_SIZE)

\* mutant of AckLoopRange: the loop runs one iteration further
AckLoopRange_OneMore == 1..(ACK_BITFIELD_SIZE + 1)

\* the range of the loop `for i in 1..=ACK_BITFIELD_SIZE` of
\* process_recv_packet_header
AckLoopRange == 1..ACK_BITFIELD_SIZE

\* the first iteration of the loop whose get_bitfield_bit(i - 1) panics, if any
FirstPanic == {i \in AckLoopRange :
                 /\ GetBitfieldBitPanics(i - 1)
                 /\ \A j \in AckLoopRange : GetBitfieldBitPanics(j - 1) => i <= j}

\* the iterations of the loop that are run (those before a panic) and pass
\* `if header.get_bitfield_bit(i - 1)`
AckIterations(header) ==
    {i \in AckLoopRange : /\ \A j \in FirstPanic : i < j
                          /\ GetBitfieldBit(header, i - 1)}

\* mutant of AckBitfieldStep: the entry is removed but the id is not pushed
AckBitfieldStep_NotPushed(i, header, st) ==
    LET packet_id == WrappingSub(header.last_ack_packet_id, i)
        r == UpdateSentPacketsNotAcked(st.map, packet_id)
    IN  [map |-> r.map, acked |-> st.acked]

\* such an iteration; st = [map, acked] is the map and the list so far
AckBitfieldStep(i, header, st) ==
    LET packet_id == WrappingSub(header.last_ack_packet_id, i)
        r == UpdateSentPacketsNotAcked(st.map, packet_id)
    IN  [map |-> r.map, acked |-> st.acked \o r.ret]

RECURSIVE AckBitfieldLoop(_, _, _)
\* the loop: the iterations todo in increasing order of i, started from st (the
\* test makes TLC evaluate an iteration before it descends into the next one)
AckBitfieldLoop(todo, header, st) ==
    IF todo = {} THEN st
    ELSE LET i == CHOOSE x \in todo : \A y \in todo : x <= y
             next == AckBitfieldStep(i, header, st)
         IN  IF next = next THEN AckBitfieldLoop(todo \ {i}, header, next) ELSE st

\* the ack part of process_recv_packet_header: last_ack_packet_id first, then
\* the bitfield
ReadAcks(m, header) ==
    LET r == UpdateSentPacketsNotAcked(m, header.last_ack_packet_id)
    IN  AckBitfieldLoop(AckIterations(header), header,
                        [map |-> r.map, acked |-> r.ret])

\* mutant of BuildHeader: the ack names the id after the last one received
BuildHeader_AcksNextId(packet_type, packet_id, rb) ==
    [packet_type |-> packet_type,
     packet_id |-> packet_id,
     last_ack_packet_id |->
         IF rb.last_recv_packet_id = <<>> THEN U16_MAX
         ELSE WrappingAdd(rb.last_recv_packet_id[1], 1),
     ack_bitfield |-> GetBitfield(rb),
     tick |-> 0]

\* mutant of BuildHeader: with nothing received the ack names id 0
BuildHeader_ZeroSentinel(packet_type, packet_id, rb) ==
    [packet_type |-> packet_type,
     packet_id |-> packet_id,
     last_ack_packet_id |->
         IF rb.last_recv_packet_id = <<>> THEN 0 ELSE rb.last_recv_packet_id[1],
     ack_bitfield |-> GetBitfield(rb),
     tick |-> 0]

\* the header prepare_send_packet_header builds
BuildHeader(packet_type, packet_id, rb) ==
    [packet_type |-> packet_type,
     packet_id |-> packet_id,
     last_ack_packet_id |->
         IF rb.last_recv_packet_id = <<>> THEN U16_MAX ELSE rb.last_recv_packet_id[1],
     ack_bitfield |-> GetBitfield(rb),
     tick |-> 0]

\* ------------------------------------------------------------ ChannelSend

\* the time after which an in-flight message is offered again (fixed backoff)
RetransmitDelay == 100

RECURSIVE SortedSeq(_)
\* the elements of a set of numbers in increasing order
SortedSeq(S) ==
    IF S = {} THEN <<>>
    ELSE LET x == CHOOSE y \in S : \A z \in S : y <= z
         IN  <<x>> \o SortedSeq(S \ {x})

\* an ordered-reliable sender: the unsent queue, the in-flight map (message ->
\* the packet ids that carried it and the time its timer was started), the
\* messages delivered, the messages awaiting send_packet, what the last
\* collect_messages_to_send offered, how often each message was offered, what
\* the last buffer_send returned, and as history the packet ids acked and the
\* packet ids that ever carried each message
NewChannel ==
    [unsent |-> <<>>, in_flight |-> << >>, delivered |-> {},
     messages_to_send |-> <<>>, offered |-> <<>>, offers |-> << >>,
     next_message |-> 1, next_packet |-> 0, now |-> 0, result |-> "none",
     acked |-> {}, carried_by |-> << >>]

\* the outstanding send-queue depth
Depth(ch) == Len(ch.unsent) + Cardinality(DOMAIN ch.in_flight)

\* fn buffer_send(&mut self, message: MessageContainer<P>); returns ()
BufferSendReturn == "unit"

\* ChannelSend::buffer_send: the message is queued; at the full depth it is
\* either queued all the same (accept) or dropped
BufferSend(ch, accept) ==
    IF Depth(ch) < MAX_SEND_PACKET_QUEUE_SIZE \/ accept
    THEN [ch EXCEPT !.unsent = Append(@, ch.next_message),
                    !.next_message = @ + 1,
                    !.result = BufferSendReturn]
    ELSE [ch EXCEPT !.next_message = @ + 1,
                    !.result = BufferSendReturn]

\* the in-flight messages whose retransmission timer has elapsed at now
Due(ch, now) ==
    {m \in DOMAIN ch.in_flight : now - ch.in_flight[m].last_sent >= RetransmitDelay}

\* mutant of CollectMessagesToSend: in-flight messages are never offered again
CollectMessagesToSend_NoResend(ch, now) ==
    LET fresh == {ch.unsent[k] : k \in DOMAIN ch.unsent}
        offered == ch.unsent
    IN  [ch EXCEPT
            !.unsent = <<>>,
            !.in_flight =
                [m \in DOMAIN ch.in_flight \cup fresh |->
                    IF m \in fresh THEN [carriers |-> {}, last_sent |-> now]
                    ELSE ch.in_flight[m]],
            !.offered = offered,
            !.messages_to_send =
                @ \o SelectSeq(offered,
                               LAMBDA m : \A k \in DOMAIN ch.messages_to_send :
                                              ch.messages_to_send[k] # m),
            !.offers = [m \in DOMAIN ch.offers \cup fresh |->
                           (IF m \in DOMAIN ch.offers THEN ch.offers[m] ELSE 0)
                             + (IF m \in fresh THEN 1 ELSE 0)],
            !.now = now]

\* ChannelSend::collect_messages_to_send at time now: the unsent messages, then
\* the in-flight messages that are due; the unsent ones become in-flight and
\* the timers of all offered messages start again
CollectMessagesToSend(ch, now) ==
    LET fresh == {ch.unsent[k] : k \in DOMAIN ch.unsent}
        due == Due(ch, now)
        offered == ch.unsent \o SortedSeq(due)
    IN  [ch EXCEPT
            !.unsent = <<>>,
            !.in_flight =
                [m \in DOMAIN ch.in_flight \cup fresh |->
                    IF m \in fresh THEN [carriers |-> {}, last_sent |-> now]
                    ELSE IF m \in due THEN [ch.in_flight[m] EXCEPT !.last_sent = now]
                    ELSE ch.in_flight[m]],
            !.offered = offered,
            !.messages_to_send =
                @ \o SelectSeq(offered,
                               LAMBDA m : \A k \in DOMAIN ch.messages_to_send :
                                              ch.messages_to_send[k] # m),
            !.offers = [m \in DOMAIN ch.offers \cup fresh \cup due |->
                           (IF m \in DOMAIN ch.offers THEN ch.offers[m] ELSE 0)
                             + (IF m \in fresh \cup due THEN 1 ELSE 0)],
            !.now = now]

\* ChannelSend::has_messages_to_send
HasMessagesToSend(ch) == ch.messages_to_send # <<>>

\* ChannelSend::send_packet: the collected messages ride on the next packet id
SendPacket(ch) ==
    LET carried == {ch.messages_to_send[k] : k \in DOMAIN ch.messages_to_send}
    IN  [ch EXCEPT
            !.in_flight =
                [m \in DOMAIN ch.in_flight |->
                    IF m \in carried
                    THEN [ch.in_flight[m] EXCEPT !.carriers = @ \cup {ch.next_packet}]
                    ELSE ch.in_flight[m]],
            !.messages_to_send = <<>>,
            !.next_packet = WrappingAdd(@, 1),
            !.carried_by =
                [m \in DOMAIN ch.carried_by \cup carried |->
                    (IF m \in DOMAIN ch.carried_by THEN ch.carried_by[m] ELSE {})
                      \cup (IF m \in carried THEN {ch.next_packet} ELSE {})]]

\* the newly acked packet ids reach the channel: a message carried by any of
\* them is delivered and leaves the in-flight map
OnPacketsAcked(ch, ids) ==
    LET done == {m \in DOMAIN ch.in_flight : ch.in_flight[m].carriers \cap ids # {}}
    IN  [ch EXCEPT
            !.delivered = @ \cup done,
            !.in_flight = [m \in DOMAIN ch.in_flight \ done |-> ch.in_flight[m]],
            !.messages_to_send = SelectSeq(@, LAMBDA m : m \notin done),
            !.acked = @ \cup ids]

\* ------------------------------------------------------------ header encoding

\* the variants of PacketType, in declaration order
WirePacketTypes == <<"Data", "Ack">>

VariantIndex(t) == (CHOOSE i \in DOMAIN WirePacketTypes : WirePacketTypes[i] = t) - 1

\* an unsigned integer in width bytes, least significant first
LeBytes(n, width) == [k \in 1..width |-> (n \div (256 ^ (k - 1))) % 256]

\* the u32 bitfield in 4 bytes, least significant first
BitsToBytes(bits) ==
    [k \in 1..4 |->
        LET w(j) == IF 8 * (k - 1) + j \in bits THEN 2 ^ j ELSE 0
        IN  w(0) + w(1) + w(2) + w(3) + w(4) + w(5) + w(6) + w(7)]

BytesToBits(bytes) ==
    {8 * (k - 1) + j : k \in 1..4, j \in 0..7} \cap
        {b \in 0..(ACK_BITFIELD_SIZE - 1) :
            (bytes[(b \div 8) + 1] \div (2 ^ (b % 8))) % 2 = 1}

\* mutant of EncodeHeader: packet_id is written as one byte
EncodeHeader_IdInOneByte(header) ==
    <<VariantIndex(header.packet_type)>>
        \o LeBytes(header.packet_id, 1) \o <<0>>
        \o LeBytes(header.last_ack_packet_id, 2)
        \o BitsToBytes(header.ack_bitfield)
        \o LeBytes(header.tick, 2)

\* writer.encode(&header, Fixed): the fields in declaration order, fixed width
EncodeHeader(header) ==
    <<VariantIndex(header.packet_type)>>
        \o LeBytes(header.packet_id, 2)
        \o LeBytes(header.last_ack_packet_id, 2)
        \o BitsToBytes(header.ack_bitfield)
        \o LeBytes(header.tick, 2)

\* reader.decode::<PacketHeader>(Fixed)
DecodeHeader(bytes) ==
    [packet_type |-> WirePacketTypes[bytes[1] + 1],
     packet_id |-> bytes[2] + 256 * bytes[3],
     last_ack_packet_id |-> bytes[4] + 256 * bytes[5],
     ack_bitfield |-> BytesToBits(SubSeq(bytes, 6, 9)),
     tick |-> bytes[10] + 256 * bytes[11]]

\* nothing picked, encoded or decoded yet
NoWire == [header |-> <<>>, bytes |-> <<>>, read_header |-> <<>>]

\* ------------------------------------------------------------ state

VARIABLES
    next_packet_id,          \* [peer -> u16]
    sent_packets_not_acked,  \* [peer -> [set of ids -> send time]]
    recv_buffer,             \* [peer -> ReceiveBuffer]
    current_time,            \* [peer -> ms]
    stats,                   \* [peer -> calls made on the PacketStatsManager]
    network,                 \* packets in flight: [src, header, seen]
    call,                    \* the operation performed last
    newly_acked_packets,     \* what process_recv_packet_header returned last
    outgoing_header,         \* what prepare_send_packet_header returned last
    processed,               \* history: [peer -> ids whose header it received]
    sent_count,              \* history: [peer -> [id -> times allocated by prepare]]
    acked_count,             \* history: [peer -> [id -> times reported newly acked]]
    lost_count,              \* history: [peer -> [id -> times counted lost]]
    overwritten,             \* history: [peer -> ids allocated again while unacked]
    reported,                \* history: [peer -> ids reported newly acked and not
                             \*           allocated again since]
    allocated,               \* history: [peer -> <<id, operation>> allocated, in order]
    expired,                 \* history: [peer -> ids counted lost and not allocated
                             \*           again since]
    chan,                    \* a ChannelSender (ordered reliable)
    wire                     \* a header, its encoding and the header decoded from it

vars == <<next_packet_id, sent_packets_not_acked, recv_buffer, current_time,
          stats, network, call, newly_acked_packets, outgoing_header,
          processed, sent_count, acked_count, lost_count, overwritten, reported,
          allocated, expired, chan, wire>>

PacketTypes == {"Data"}

NoHeader == [packet_type |-> "None", packet_id |-> 0, last_ack_packet_id |-> 0,
             ack_bitfield |-> {}, tick |-> 0]

\* seen: for a header taken from the network, <<the ids its sender had received
\* when it built the header>>
NoCall == [op |-> "new", peer |-> "A", header |-> NoHeader, id |-> 0, now |-> 0,
           seen |-> <<>>]

NoStats == [sent |-> 0, acked |-> 0, lost |-> 0, received |-> 0]

\* history counters
Count(f, id) == IF id \in DOMAIN f THEN f[id] ELSE 0

Bump(f, S) == [x \in DOMAIN f \cup S |-> Count(f, x) + IF x \in S THEN 1 ELSE 0]

Range(s) == {s[k] : k \in DOMAIN s}

\* PacketHeaderManager::new for every peer; peer A is then taken to the state
\* start = [next, unacked, net] a run of it has reached: next_packet_id = next,
\* the entries of unacked still awaiting an ack, its packets net in flight
InitWith(start) ==
    /\ next_packet_id = [p \in Peers |-> IF p = "A" THEN start.next ELSE 0]
    /\ sent_packets_not_acked =
           [p \in Peers |-> IF p = "A" THEN start.unacked ELSE EmptyMap]
    /\ recv_buffer = [p \in Peers |-> NewReceiveBuffer]
    /\ current_time = [p \in Peers |-> 0]
    /\ stats = [p \in Peers |->
                   IF p = "A"
                   THEN [NoStats EXCEPT !.sent = Cardinality(DOMAIN start.unacked)]
                   ELSE NoStats]
    /\ network = start.net
    /\ call = NoCall
    /\ newly_acked_packets = <<>>
    /\ outgoing_header = <<>>
    /\ processed = [p \in Peers |-> {}]
    /\ sent_count = [p \in Peers |->
                        IF p = "A" THEN Bump(EmptyMap, DOMAIN start.unacked)
                        ELSE EmptyMap]
    /\ acked_count = [p \in Peers |-> EmptyMap]
    /\ lost_count = [p \in Peers |-> EmptyMap]
    /\ overwritten = [p \in Peers |-> {}]
    /\ reported = [p \in Peers |-> {}]
    /\ allocated = [p \in Peers |-> <<>>]
    /\ expired = [p \in Peers |-> {}]
    /\ chan = NewChannel
    /\ wire = NoWire

\* PacketHeaderManager::new
FreshStart == [next |-> 0, unacked |-> EmptyMap, net |-> {}]

\* ------------------------------------------------------------ operations

\* PacketHeaderManager::increment_next_packet_id
IncrementNextPacketId(p) ==
    /\ next_packet_id' = [next_packet_id EXCEPT ![p] = WrappingAdd(@, 1)]
    /\ allocated' = [allocated EXCEPT ![p] =
                         Append(@, <<next_packet_id[p], "increment_next_packet_id">>)]
    /\ call' = [NoCall EXCEPT !.op = "increment_next_packet_id", !.peer = p]
    /\ newly_acked_packets' = <<>>
    /\ outgoing_header' = <<>>
    /\ UNCHANGED <<sent_packets_not_acked, recv_buffer, current_time, stats,
                   network, processed, sent_count, acked_count, lost_count,
                   overwritten, reported, expired>>
    /\ UNCHANGED <<chan, wire>>

\* PacketHeaderManager::prepare_send_packet_header(packet_type); with transmit
\* the packet carrying the header is handed to the network
PrepareSendPacketHeader(p, packet_type, transmit) ==
    LET id == next_packet_id[p]
        outgoing == BuildHeader(packet_type, id, recv_buffer[p])
    IN  /\ stats' = [stats EXCEPT ![p].sent = @ + 1]
        /\ sent_packets_not_acked' =
               [sent_packets_not_acked EXCEPT ![p] = MapInsert(@, id, current_time[p])]
        /\ next_packet_id' = [next_packet_id EXCEPT ![p] = WrappingAdd(@, 1)]
        /\ outgoing_header' = <<outgoing>>
        /\ network' =
               IF transmit
               THEN network \cup {[src |-> p, header |-> outgoing, seen |-> processed[p]]}
               ELSE network
        /\ call' = [NoCall EXCEPT !.op = "prepare_send_packet_header", !.peer = p]
        /\ newly_acked_packets' = <<>>
        /\ sent_count' = [sent_count EXCEPT ![p] = Bump(@, {id})]
        /\ overwritten' =
               [overwritten EXCEPT ![p] =
                   IF id \in DOMAIN sent_packets_not_acked[p] THEN @ \cup {id} ELSE @]
        /\ allocated' = [allocated EXCEPT ![p] =
                             Append(@, <<id, "prepare_send_packet_header">>)]
        /\ reported' = [reported EXCEPT ![p] = @ \ {id}]
        /\ expired' = [expired EXCEPT ![p] = @ \ {id}]
        /\ UNCHANGED <<recv_buffer, current_time, processed, acked_count, lost_count>>
        /\ UNCHANGED <<chan, wire>>

\* PacketHeaderManager::process_recv_packet_header(header); a panic (the
\* expect of recv_packet, the assert of get_bitfield_bit) ends the call where
\* it happens: what was written before stays, nothing is returned
ProcessRecvPacketHeader(p, header, seen) ==
    LET recv_panics == RecvPacketPanics(recv_buffer[p], header.packet_id)
        panics == recv_panics \/ FirstPanic # {}
        r == IF recv_panics
             THEN [map |-> sent_packets_not_acked[p], acked |-> <<>>]
             ELSE ReadAcks(sent_packets_not_acked[p], header)
    IN  /\ recv_buffer' =
               IF recv_panics THEN recv_buffer
               ELSE [recv_buffer EXCEPT ![p] = RecvPacket(@, header.packet_id)]
        /\ sent_packets_not_acked' = [sent_packets_not_acked EXCEPT ![p] = r.map]
        /\ stats' = [stats EXCEPT ![p].received = @ + 1,
                                  ![p].acked = @ + Len(r.acked)]
        /\ newly_acked_packets' = IF panics THEN <<>> ELSE r.acked
        /\ outgoing_header' = <<>>
        /\ call' = [NoCall EXCEPT
                       !.op = IF panics THEN "panic" ELSE "process_recv_packet_header",
                       !.peer = p, !.header = header, !.seen = seen]
        /\ processed' =
               IF recv_panics THEN processed
               ELSE [processed EXCEPT ![p] = @ \cup {header.packet_id}]
        /\ acked_count' = [acked_count EXCEPT ![p] = Bump(@, Range(r.acked))]
        /\ reported' = [reported EXCEPT ![p] = @ \cup Range(r.acked)]
        /\ UNCHANGED <<next_packet_id, current_time, network, sent_count,
                       lost_count, overwritten, allocated, expired>>
        /\ UNCHANGED <<chan, wire>>

\* PacketHeaderManager::update(time_manager), the time manager's clock at now
Update(p, now) ==
    LET m == sent_packets_not_acked[p]
        lost == {id \in DOMAIN m : IsLost(now, m[id])}
    IN  /\ current_time' = [current_time EXCEPT ![p] = now]
        /\ sent_packets_not_acked' =
               [sent_packets_not_acked EXCEPT ![p] = [id \in DOMAIN m \ lost |-> m[id]]]
        /\ stats' = [stats EXCEPT ![p].lost = @ + Cardinality(lost)]
        /\ lost_count' = [lost_count EXCEPT ![p] = Bump(@, lost)]
        /\ expired' = [expired EXCEPT ![p] = @ \cup lost]
        /\ call' = [NoCall EXCEPT !.op = "update", !.peer = p, !.now = now]
        /\ newly_acked_packets' = <<>>
        /\ outgoing_header' = <<>>
        /\ UNCHANGED <<next_packet_id, recv_buffer, network, processed, sent_count,
                       acked_count, overwritten, reported, allocated>>
        /\ UNCHANGED <<chan, wire>>

\* ------------------------------------------------------------ SpecRecv

\* a fresh ReceiveBuffer (peer A's) driven by recv_packet alone
InitRecv == InitWith(FreshStart)

\* ReceiveBuffer::recv_packet(id)
RecvPacketCall(id) ==
    /\ IF RecvPacketPanics(recv_buffer["A"], id)
       THEN /\ call' = [NoCall EXCEPT !.op = "panic", !.id = id]
            /\ UNCHANGED <<recv_buffer, processed>>
       ELSE /\ call' = [NoCall EXCEPT !.op = "recv_packet", !.id = id]
            /\ recv_buffer' = [recv_buffer EXCEPT !["A"] = RecvPacket(@, id)]
            /\ processed' = [processed EXCEPT !["A"] = @ \cup {id}]
    /\ stats' = [stats EXCEPT !["A"].received = @ + 1]
    /\ UNCHANGED <<next_packet_id, sent_packets_not_acked, current_time, network,
                   newly_acked_packets, outgoing_header, sent_count, acked_count,
                   lost_count, overwritten, reported, allocated, expired>>
    /\ UNCHANGED <<chan, wire>>

NextRecv ==
    /\ stats["A"].received < MaxRecv
    /\ \E id \in RecvIds : RecvPacketCall(id)

SpecRecv == InitRecv /\ [][NextRecv]_vars

\* ------------------------------------------------------------ Spec

\* One PacketHeaderManager (peer A) driven through its operations with any
\* header of HeaderPool and a clock that steps by TimeSteps.

\* the states the run starts in: a new manager; a manager that has allocated
\* 65534 ids, all of them acked or counted lost since; and a manager that has
\* allocated 65536 more ids since it sent packet 65535 at time 0, which is
\* still unacked (no update has moved the clock since)
ManagerStarts ==
    {FreshStart,
     [next |-> U16_MAX - 1, unacked |-> EmptyMap, net |-> {}],
     [next |-> U16_MAX - 1, unacked |-> MapInsert(EmptyMap, U16_MAX, 0), net |-> {}]}

\* a header as a peer would send it
Header(packet_id, last_ack_packet_id, ack_bitfield) ==
    [packet_type |-> "Data", packet_id |-> packet_id,
     last_ack_packet_id |-> last_ack_packet_id, ack_bitfield |-> ack_bitfield,
     tick |-> 0]

\* the headers the manager is given: acks of the ids it can have outstanding
\* (0, 1, 2 or 65534, 65535, 0) directly, through bits 0 and 1, through bit 31
\* and through a full bitfield, and acks across the u16 wrap
HeaderPool ==
    {Header(0, 2, {0, 1}),
     Header(1, 0, {0, 1}),
     Header(0, U16_MAX, {}),
     Header(40, ACK_BITFIELD_SIZE, {ACK_BITFIELD_SIZE - 1}),
     Header(2, 1, 0..(ACK_BITFIELD_SIZE - 1)),
     Header(1, 2, {1})}

\* two steps make an age of exactly the delay, or of one millisecond more
TimeSteps == {CLEAR_UNACKED_PACKETS_DELAY \div 2, CLEAR_UNACKED_PACKETS_DELAY \div 2 + 1}

Init == \E start \in ManagerStarts : InitWith(start)

\* the run stops allocating, processing and advancing the clock at the bounds
CanAllocate(p, max) == Len(allocated[p]) < max

CanProcess(p, max) == stats[p].received < max

Next ==
    \/ /\ CanAllocate("A", MaxSends)
       /\ \E t \in PacketTypes : PrepareSendPacketHeader("A", t, FALSE)
    \/ /\ CanAllocate("A", MaxSends)
       /\ IncrementNextPacketId("A")
    \/ /\ CanProcess("A", MaxProcess)
       /\ \E h \in HeaderPool : ProcessRecvPacketHeader("A", h, <<>>)
    \/ \E d \in TimeSteps :
           /\ current_time["A"] + d <= MaxTime
           /\ Update("A", current_time["A"] + d)

Spec == Init /\ [][Next]_vars

\* ------------------------------------------------------------ SpecNet

\* Two managers, A and B, exchanging packets over a network that loses (a
\* packet is never taken), delays, reorders (any packet in flight is taken) and
\* duplicates (a packet taken stays in flight).

\* a packet of A's from long ago, still in flight: A had received nothing then
StalePacket(id) ==
    [src |-> "A", header |-> BuildHeader("Data", id, NewReceiveBuffer), seen |-> {}]

\* the states the run starts in: two new managers; and A having allocated
\* 65534 ids, all of them counted lost since, of which the packets 25534 and
\* 55534 are still in flight, while B has received and sent nothing
NetStarts ==
    {FreshStart,
     [next |-> U16_MAX - 1, unacked |-> EmptyMap,
      net |-> {StalePacket(25534), StalePacket(55534)}]}

InitNet == \E start \in NetStarts : InitWith(start)

\* p sends a packet
Send(p) == \E t \in PacketTypes : PrepareSendPacketHeader(p, t, TRUE)

\* p receives one of the packets in flight to it
Deliver(p) ==
    \E msg \in network :
        /\ msg.src = Other(p)
        /\ ProcessRecvPacketHeader(p, msg.header, <<msg.seen>>)

NextNet ==
    \/ /\ CanAllocate("A", MaxSends)
       /\ Send("A")
    \/ /\ CanAllocate("B", MaxReplies)
       /\ Send("B")
    \/ /\ CanProcess("A", MaxProcess)
       /\ Deliver("A")
    \/ /\ CanProcess("B", MaxDeliver)
       /\ Deliver("B")

SpecNet == InitNet /\ [][NextNet]_vars

\* ------------------------------------------------------------ SpecLive

\* One manager whose update keeps being called with an advancing clock, up to
\* MaxLiveTime; it sends only while the clock can still pass the packet's
\* threshold.

CanExpire(p) == current_time[p] + CLEAR_UNACKED_PACKETS_DELAY < MaxLiveTime

ClockAt(t) == IF t < MaxLiveTime THEN t ELSE MaxLiveTime

\* the caller's update tick
Tick(p) ==
    /\ current_time[p] < MaxLiveTime
    /\ \E d \in TimeSteps : Update(p, ClockAt(current_time[p] + d))

NextLive ==
    \/ /\ CanAllocate("A", MaxSends)
       /\ CanExpire("A")
       /\ \E t \in PacketTypes : PrepareSendPacketHeader("A", t, FALSE)
    \/ /\ CanProcess("A", MaxProcess)
       /\ \E h \in HeaderPool : ProcessRecvPacketHeader("A", h, <<>>)
    \/ Tick("A")

SpecLive == Init /\ [][NextLive]_vars /\ WF_vars(Tick("A"))

\* ------------------------------------------------------------ SpecQueue

\* the manager's variables, which the channel and the encoder leave alone
ManagerVars ==
    <<next_packet_id, sent_packets_not_acked, recv_buffer, current_time, stats,
      network, newly_acked_packets, outgoing_header, processed, sent_count,
      acked_count, lost_count, overwritten, reported, allocated, expired>>

\* buffer_send(message)
BufferSendCall ==
    \E accept \in BOOLEAN :
        /\ chan' = BufferSend(chan, accept)
        /\ call' = [NoCall EXCEPT !.op = "buffer_send", !.id = chan.next_message]
        /\ UNCHANGED <<ManagerVars, wire>>

\* a new manager, a new channel, nothing on the wire
InitFresh == InitWith(FreshStart)

\* a caller that only enqueues
NextQueue ==
    /\ chan.next_message <= MaxBuffered
    /\ BufferSendCall

SpecQueue == InitFresh /\ [][NextQueue]_vars

\* ------------------------------------------------------------ SpecReliable

\* collect_messages_to_send() at time now
CollectCall(now) ==
    /\ chan' = CollectMessagesToSend(chan, now)
    /\ call' = [NoCall EXCEPT !.op = "collect_messages_to_send", !.now = now]
    /\ UNCHANGED <<ManagerVars, wire>>

\* send_packet(packet_manager)
SendPacketCall ==
    /\ HasMessagesToSend(chan)
    /\ chan' = SendPacket(chan)
    /\ call' = [NoCall EXCEPT !.op = "send_packet", !.id = chan.next_packet]
    /\ UNCHANGED <<ManagerVars, wire>>

\* the ack of packet id reaches the channel
AckCall(id) ==
    /\ chan' = OnPacketsAcked(chan, {id})
    /\ call' = [NoCall EXCEPT !.op = "on_packets_acked", !.id = id]
    /\ UNCHANGED <<ManagerVars, wire>>

ChanSteps == {RetransmitDelay \div 2, RetransmitDelay}

ChanClockAt(t) == IF t < MaxChanTime THEN t ELSE MaxChanTime

\* the update tick of the channel: collect with an advancing clock
ChanTick ==
    /\ chan.now < MaxChanTime
    /\ \E d \in ChanSteps : CollectCall(ChanClockAt(chan.now + d))

NextReliable ==
    \/ /\ chan.next_message <= MaxMessages
       /\ BufferSendCall
    \/ ChanTick
    \/ CollectCall(chan.now)
    \/ /\ chan.next_packet < MaxPackets
       /\ SendPacketCall
    \/ \E id \in 0..(MaxPackets - 1) :
           /\ id < chan.next_packet
           /\ AckCall(id)

SpecReliable == InitFresh /\ [][NextReliable]_vars /\ WF_vars(ChanTick)

\* ------------------------------------------------------------ SpecHead

\* One new PacketHeaderManager (peer A) that receives packets whose ids are
\* near each other, across the u16 wrap, or far apart, and builds headers in
\* between; the headers it builds stay in `network`, each with the ids the
\* manager had received when it built it.

\* the ids of the packets it receives
HeadIds == {0, 1, 2, 30000, 60000, U16_MAX - 1}

NextHead ==
    \/ /\ CanProcess("A", MaxHeadRecv)
       /\ \E id \in HeadIds : ProcessRecvPacketHeader("A", Header(id, 0, {}), <<>>)
    \/ /\ CanAllocate("A", MaxHeadSends)
       /\ Send("A")

SpecHead == InitFresh /\ [][NextHead]_vars

\* ------------------------------------------------------------ SpecSerde

\* headers handed to the encoder: the one of test_serde_header, the extremes of
\* every field and values whose bytes differ
SerdeHeaders ==
    [packet_type : {"Data", "Ack"},
     packet_id : {0, 27, U16_MAX},
     last_ack_packet_id : {13, 256, U16_MAX},
     ack_bitfield : {{}, {0, 1}, {31}, 0..(ACK_BITFIELD_SIZE - 1)},
     tick : {0, 513}]

PickHeader(header) ==
    /\ wire = NoWire
    /\ wire' = [NoWire EXCEPT !.header = <<header>>]
    /\ call' = [NoCall EXCEPT !.op = "header"]
    /\ UNCHANGED <<ManagerVars, chan>>

Encode ==
    /\ wire.header # <<>>
    /\ wire.bytes = <<>>
    /\ wire' = [wire EXCEPT !.bytes = EncodeHeader(wire.header[1])]
    /\ call' = [NoCall EXCEPT !.op = "encode"]
    /\ UNCHANGED <<ManagerVars, chan>>

Decode ==
    /\ wire.bytes # <<>>
    /\ wire.read_header = <<>>
    /\ wire' = [wire EXCEPT !.read_header = <<DecodeHeader(wire.bytes)>>]
    /\ call' = [NoCall EXCEPT !.op = "decode"]
    /\ UNCHANGED <<ManagerVars, chan>>

NextSerde ==
    \/ \E header \in SerdeHeaders : PickHeader(header)
    \/ Encode
    \/ Decode

SpecSerde == InitFresh /\ [][NextSerde]_vars

\* ------------------------------------------------------------ claims

SetMax(S) == CHOOSE x \in S : \A y \in S : y <= x

SetMin(S) == CHOOSE x \in S : \A y \in S : x <= y

\* the ids received so far lie within one half of the id space
WithinHalf(S) == S = {} \/ SetMax(S) - SetMin(S) <= U16_MAX \div 2

\* C1: after any sequence of recv_packet calls on a fresh buffer whose ids lie
\* within one half of the id space, last_recv_packet_id is the largest id
\* received and bit i of get_bitfield() is set exactly when the id
\* last_recv_packet_id - (i+1) is among the ids received.
C1_BitfieldMatchesReceived ==
    LET rb == recv_buffer["A"]
        got == processed["A"]
    IN  (got # {} /\ WithinHalf(got)) =>
            /\ rb.last_recv_packet_id = <<SetMax(got)>>
            /\ \A i \in 0..(ACK_BITFIELD_SIZE - 1) :
                   (i \in GetBitfield(rb))
                       <=> (WrappingSub(SetMax(got), i + 1) \in got)

\* C1 witness: four ids received, the head has older neighbours both received
\* and missed, and the bitfield is neither empty nor full
C1_Witness ==
    /\ call.op = "recv_packet"
    /\ Cardinality(processed["A"]) = 4
    /\ WithinHalf(processed["A"])
    /\ recv_buffer["A"].last_recv_packet_id = <<37>>
    /\ GetBitfield(recv_buffer["A"]) = {0, 2}

\* the list C2 describes: last_ack_packet_id, then the ids at distance 1..32
\* below it whose bit is set, each only if it is in the map m
ListedAcks(m, header) ==
    LET last == header.last_ack_packet_id
        candidates == [k \in 1..(ACK_BITFIELD_SIZE + 1) |-> WrappingSub(last, k - 1)]
        Listed(id) ==
            /\ id \in DOMAIN m
            /\ id = last \/ (WrappingSub(last, id) - 1) \in header.ack_bitfield
    IN  SelectSeq(candidates, Listed)

\* C2: process_recv_packet_header(header) returns exactly last_ack_packet_id (if
\* unacked) followed by the ids last_ack_packet_id - i, i = 1..32 in increasing
\* order, whose bit i-1 is set and which are unacked; exactly the returned ids
\* leave the sent-unacked set, no id is returned twice, and at most 33 are.
C2_ReturnsListedAcks ==
    [][call'.op = "process_recv_packet_header" =>
          LET p == call'.peer
              m == sent_packets_not_acked[p]
              after == sent_packets_not_acked'[p]
              ret == newly_acked_packets'
          IN  /\ ret = ListedAcks(m, call'.header)
              /\ DOMAIN after = DOMAIN m \ Range(ret)
              /\ \A id \in DOMAIN after : after[id] = m[id]
              /\ Cardinality(Range(ret)) = Len(ret)
              /\ Len(ret) <= ACK_BITFIELD_SIZE + 1]_vars

\* C2 witness: ids 0, 1, 2 unacked, last_ack = 2 and bits 0 and 1 set: the
\* call returned [2, 1, 0] and emptied the set
C2_Witness ==
    /\ call.op = "process_recv_packet_header"
    /\ call.header.last_ack_packet_id = 2
    /\ call.header.ack_bitfield = {0, 1}
    /\ newly_acked_packets = <<2, 1, 0>>
    /\ sent_packets_not_acked["A"] = EmptyMap

\* the packet ids of the headers p has built, in order
Built(p) ==
    SelectSeq(allocated[p], LAMBDA e : e[2] = "prepare_send_packet_header")

\* C6, first sentence: a call of prepare_send_packet_header returns
\* next_packet_id, inserts it with the current time and increments the counter
\* modulo 65536.
C6_EachCallConsumesOneId ==
    [][call'.op = "prepare_send_packet_header" =>
          LET p == call'.peer
              id == next_packet_id[p]
          IN  /\ outgoing_header'[1].packet_id = id
              /\ id \in DOMAIN sent_packets_not_acked'[p]
              /\ sent_packets_not_acked'[p][id] = current_time[p]
              /\ next_packet_id'[p] = (id + 1) % U16_MODULUS]_vars

\* C6: each call of prepare_send_packet_header consumes exactly one packet id,
\* and consequently the packet ids of successive headers built by one manager
\* are consecutive modulo 65536, with no gap.
C6_SuccessiveHeadersConsecutive ==
    [][call'.op = "prepare_send_packet_header" =>
          LET p == call'.peer
              id == next_packet_id[p]
              built == Built(p)
          IN  /\ outgoing_header'[1].packet_id = id
              /\ id \in DOMAIN sent_packets_not_acked'[p]
              /\ sent_packets_not_acked'[p][id] = current_time[p]
              /\ next_packet_id'[p] = (id + 1) % U16_MODULUS
              /\ built # <<>> =>
                     outgoing_header'[1].packet_id
                         = (built[Len(built)][1] + 1) % U16_MODULUS]_vars

\* C7: prepare_send_packet_header is the only operation that changes
\* next_packet_id, so every id the counter moves past is inserted into the
\* sent-unacked set at that moment.
C7_OnlyPrepareAllocates ==
    [][\A p \in Peers :
          next_packet_id'[p] # next_packet_id[p] =>
              /\ call'.op = "prepare_send_packet_header"
              /\ next_packet_id[p] \in DOMAIN sent_packets_not_acked'[p]]_vars

\* update(now) removes exactly the entries older than 5000 ms and counts each
\* of them lost once
UpdateSweepsExactly ==
    call'.op = "update" =>
        LET p == call'.peer
            m == sent_packets_not_acked[p]
            after == sent_packets_not_acked'[p]
            old == {id \in DOMAIN m : call'.now - m[id] > 5000}
        IN  /\ DOMAIN after = DOMAIN m \ old
            /\ \A id \in DOMAIN after : after[id] = m[id]
            /\ stats'[p].lost = stats[p].lost + Cardinality(old)
            /\ \A id \in old : Count(lost_count'[p], id) = Count(lost_count[p], id) + 1
            /\ \A id \in DOMAIN after : current_time'[p] - after[id] <= 5000

\* of the packets sent under id, those that were not confirmed were counted
\* lost: once each when none is left in the set, and never more than once
LostExactlyOnce(p, id) ==
    LET unconfirmed == Count(sent_count[p], id) - Count(acked_count[p], id)
        lost == Count(lost_count[p], id)
    IN  IF id \in DOMAIN sent_packets_not_acked[p]
        THEN lost <= unconfirmed - 1
        ELSE lost = unconfirmed

\* C8 as stated: update(now) removes every entry older than 5000 ms, counts each
\* one lost and keeps the others; over any run a sent packet that is never
\* confirmed is counted lost exactly once, once update has run past its
\* threshold.
C8_EverySentPacketLostOnce ==
    [][/\ UpdateSweepsExactly
       /\ \A p \in Peers : \A id \in DOMAIN sent_count'[p] : LostExactlyOnce(p, id)']_vars

\* C8 amended: the same, for the packets whose id is not allocated again while
\* it is still in the sent-unacked set.
C8_SentPacketLostOnceUnlessOverwritten ==
    [][/\ UpdateSweepsExactly
       /\ \A p \in Peers : \A id \in DOMAIN sent_count'[p] \ overwritten'[p] :
              LostExactlyOnce(p, id)']_vars

\* C8 witness: update at time 5001 has just dropped the entry sent at time 0,
\* counted it lost once and kept a younger one
C8_Witness ==
    /\ call.op = "update"
    /\ stats["A"].lost = 1
    /\ call.now = 5001
    /\ sent_packets_not_acked["A"] # EmptyMap
    /\ \E id \in DOMAIN lost_count["A"] :
           /\ lost_count["A"][id] = 1
           /\ id \notin DOMAIN sent_packets_not_acked["A"]
           /\ id \notin overwritten["A"]

\* C10: an id process_recv_packet_header has returned is not returned again by
\* any later header unless prepare_send_packet_header allocated it again in
\* between; the same header processed twice in a row returns an empty list the
\* second time and leaves the sent-unacked set unchanged.
C10_NoDuplicateAck ==
    [][call'.op = "process_recv_packet_header" =>
          LET p == call'.peer
          IN  /\ Range(newly_acked_packets') \cap reported[p] = {}
              /\ (/\ call.op = "process_recv_packet_header"
                  /\ call.peer = p
                  /\ call.header = call'.header)
                 => /\ newly_acked_packets' = <<>>
                    /\ sent_packets_not_acked'[p] = sent_packets_not_acked[p]]_vars

\* C10 witness: a header acking an id reported before (and not allocated
\* since), directly and through the bitfield, got an empty list
C10_Witness ==
    /\ call.op = "process_recv_packet_header"
    /\ newly_acked_packets = <<>>
    /\ call.header.last_ack_packet_id \in reported["A"]
    /\ WrappingSub(call.header.last_ack_packet_id, 1) \in reported["A"]
    /\ 0 \in call.header.ack_bitfield

\* C3: a header built by a manager that has not yet received any packet conveys
\* no ack: the peer processing it gets an empty list and its sent-unacked set
\* is unchanged, whatever ids it holds.
C3_FreshHeaderAcksNothing ==
    [][(call'.op = "process_recv_packet_header" /\ call'.seen = <<{}>>) =>
          /\ newly_acked_packets' = <<>>
          /\ sent_packets_not_acked'[call'.peer] = sent_packets_not_acked[call'.peer]]_vars

\* p has allocated id 65535, after which its counter wraps to 0
Wrapped(p) == \E k \in DOMAIN allocated[p] : allocated[p][k][1] = U16_MAX

\* C4: no false acknowledgment: while p's counter has not wrapped, every id a
\* header of the peer makes process_recv_packet_header return is the id of a
\* packet the peer had processed, provided the peer had received a packet
\* before it built the header.
C4_NoFalseAck ==
    [][(/\ call'.op = "process_recv_packet_header"
        /\ call'.seen # <<{}>>
        /\ ~Wrapped(call'.peer)) =>
          /\ Range(newly_acked_packets') \subseteq call'.seen[1]
          /\ Range(newly_acked_packets') \subseteq processed[Other(call'.peer)]]_vars

\* C4 witness: A, not wrapped, got two acks from one header, one of them
\* through the bitfield, both for packets B had processed
C4_Witness ==
    /\ call.op = "process_recv_packet_header"
    /\ call.peer = "A"
    /\ ~Wrapped("A")
    /\ call.seen # <<{}>>
    /\ Len(newly_acked_packets) = 2
    /\ Range(newly_acked_packets) \subseteq call.seen[1]

\* id is the header's last_ack_packet_id or one of the 32 ids before it
InAckWindow(header, id) ==
    WrappingSub(header.last_ack_packet_id, id) <= ACK_BITFIELD_SIZE

\* the ids of S lie on an arc of less than half the id space
InHalfArc(S) ==
    \/ S = {}
    \/ \E b \in S : \A x \in S : WrappingSub(x, b) < U16_MODULUS \div 2

\* C5 as stated: an id the peer had processed, and which was its last received
\* id or one of the 32 before it when it built the header, is returned by
\* process_recv_packet_header and leaves the sent-unacked set, if it was in it.
C5_AckWindow ==
    [][call'.op = "process_recv_packet_header" =>
          LET p == call'.peer
          IN  \A id \in UNION Range(call'.seen) :
                  (/\ InAckWindow(call'.header, id)
                   /\ id \in DOMAIN sent_packets_not_acked[p])
                  => /\ id \in Range(newly_acked_packets')
                     /\ id \notin DOMAIN sent_packets_not_acked'[p]]_vars

\* C5 amended: the same, provided the ids the peer had processed when it built
\* the header lie within one half of the id space.
C5_AckWindowWithinHalf ==
    [][call'.op = "process_recv_packet_header" =>
          LET p == call'.peer
          IN  \A id \in UNION Range(call'.seen) :
                  (/\ InHalfArc(UNION Range(call'.seen))
                   /\ InAckWindow(call'.header, id)
                   /\ id \in DOMAIN sent_packets_not_acked[p])
                  => /\ id \in Range(newly_acked_packets')
                     /\ id \notin DOMAIN sent_packets_not_acked'[p]]_vars

\* C5 witness: A got the ack of a packet B had processed through bit 1 of the
\* bitfield (two ids below B's last received id)
C5_Witness ==
    /\ call.op = "process_recv_packet_header"
    /\ call.peer = "A"
    /\ InHalfArc(UNION Range(call.seen))
    /\ \E id \in UNION Range(call.seen) :
           /\ WrappingSub(call.header.last_ack_packet_id, id) = 2
           /\ 1 \in call.header.ack_bitfield
           /\ id \in Range(newly_acked_packets)
           /\ id \notin DOMAIN sent_packets_not_acked["A"]

\* the ids a manager of SpecLive can allocate
LiveIds == {0, 1, 2, U16_MAX - 1, U16_MAX}

\* C9: while update keeps being called with an advancing time, every id in the
\* sent-unacked set eventually leaves it, acknowledged or counted lost; and if
\* no header is ever received, every id in the set is eventually counted lost
\* and the set becomes empty.
C9_EventuallyRemoved ==
    /\ \A id \in LiveIds :
           (id \in DOMAIN sent_packets_not_acked["A"]) ~>
               (/\ id \notin DOMAIN sent_packets_not_acked["A"]
                /\ Count(acked_count["A"], id) + Count(lost_count["A"], id) > 0)
    /\ [](stats["A"].received = 0) =>
           /\ \A id \in LiveIds :
                  (id \in DOMAIN sent_packets_not_acked["A"]) ~>
                      (Count(lost_count["A"], id) > 0)
           /\ <>[](DOMAIN sent_packets_not_acked["A"] = {})

\* C9 witness: no header was ever received, and an update past the threshold
\* of the last packet sent has emptied the set, every packet counted lost
C9_Witness ==
    /\ call.op = "update"
    /\ stats["A"].received = 0
    /\ stats["A"].sent = MaxSends
    /\ stats["A"].lost = MaxSends
    /\ call.now > CLEAR_UNACKED_PACKETS_DELAY + 1
    /\ DOMAIN sent_packets_not_acked["A"] = {}

\* ------------------------------------------------------------ claims on recv_packet

\* the bitfield bits moved up by d, truncated to 32 bits
ShiftLeft(bits, d) == {b + d : b \in bits} \cap (0..(ACK_BITFIELD_SIZE - 1))

\* how many ids id is ahead of the head of rb, modulo 65536
IdsAhead(rb, id) == WrappingSub(id, rb.last_recv_packet_id[1])

\* how many ids id is behind the head of rb, modulo 65536
IdsBehind(rb, id) == WrappingSub(rb.last_recv_packet_id[1], id)

\* C11: the first id received becomes last_recv_packet_id with bitfield 0; an
\* id d ahead of the head, 1 <= d <= 33, becomes the head and the bitfield
\* becomes ((old << d) | (1 << (d-1))) truncated to 32 bits; a jump of exactly
\* 32 leaves only bit 31 set.
C11_AheadShiftsBitfield ==
    [][call'.op = "recv_packet" =>
          LET old == recv_buffer["A"]
              new == recv_buffer'["A"]
              id == call'.id
          IN  /\ old.last_recv_packet_id = <<>> =>
                     /\ new.last_recv_packet_id = <<id>>
                     /\ GetBitfield(new) = {}
              /\ (old.last_recv_packet_id # <<>> /\ IdsAhead(old, id) \in 1..33) =>
                     LET d == IdsAhead(old, id)
                     IN  /\ new.last_recv_packet_id = <<id>>
                         /\ GetBitfield(new) =
                                ShiftLeft(GetBitfield(old), d) \cup ShiftLeft({0}, d - 1)
                         /\ d = 32 => GetBitfield(new) = {31}]_vars

\* C11 witness: 0, 1, 3, 6 received in this order: the bitfield is 0b110100
C11_Witness ==
    /\ call.op = "recv_packet"
    /\ call.id = 6
    /\ processed["A"] = {0, 1, 3, 6}
    /\ recv_buffer["A"].last_recv_packet_id = <<6>>
    /\ GetBitfield(recv_buffer["A"]) = {2, 4, 5}

\* C12: an id d behind the head, 1 <= d <= 32, leaves last_recv_packet_id
\* unchanged, sets bit d-1 and leaves every other bit as it was.
C12_BehindSetsOneBit ==
    [][call'.op = "recv_packet" =>
          LET old == recv_buffer["A"]
              new == recv_buffer'["A"]
              id == call'.id
          IN  (old.last_recv_packet_id # <<>> /\ IdsBehind(old, id) \in 1..32) =>
                  /\ new.last_recv_packet_id = old.last_recv_packet_id
                  /\ GetBitfield(new) = GetBitfield(old) \cup {IdsBehind(old, id) - 1}]_vars

\* C12 witness: after 0, 1, 3, 6 the id 2 arrives: the head stays 6 and the
\* bitfield is 0b111100
C12_Witness ==
    /\ call.op = "recv_packet"
    /\ call.id = 2
    /\ processed["A"] = {0, 1, 2, 3, 6}
    /\ recv_buffer["A"].last_recv_packet_id = <<6>>
    /\ GetBitfield(recv_buffer["A"]) = {2, 3, 4, 5}

\* C13: an id more than 33 ahead of the head becomes the head and the
\* bitfield becomes 0, which is what the shift rule gives: no bit stands for
\* an id that was not received.
C13_FarAheadResets ==
    [][call'.op = "recv_packet" =>
          LET old == recv_buffer["A"]
              new == recv_buffer'["A"]
              id == call'.id
          IN  (/\ old.last_recv_packet_id # <<>>
               /\ IdsAhead(old, id) > ACK_BITFIELD_SIZE + 1
               /\ IdsAhead(old, id) <= U16_MODULUS \div 2) =>
                  /\ new.last_recv_packet_id = <<id>>
                  /\ new.buffer = [k \in 1..ACK_BITFIELD_SIZE |-> FALSE]
                  /\ GetBitfield(new) = {}
                  /\ GetBitfield(new) = ShiftLeft(GetBitfield(old), IdsAhead(old, id))
                  /\ \A i \in GetBitfield(new) : WrappingSub(id, i + 1) \in processed'["A"]]_vars

\* C13 witness: with head 6 and bit 2 set (3 received), 50 arrives: the head is
\* 50 and the bitfield 0
C13_Witness ==
    /\ call.op = "recv_packet"
    /\ call.id = 50
    /\ processed["A"] = {3, 6, 50}
    /\ recv_buffer["A"].last_recv_packet_id = <<50>>
    /\ GetBitfield(recv_buffer["A"]) = {}

\* C14: an id more than 32 behind the head, or equal to the head, leaves
\* last_recv_packet_id and all 32 entries unchanged.
C14_StaleAndDuplicateIgnored ==
    [][call'.op = "recv_packet" =>
          LET old == recv_buffer["A"]
              new == recv_buffer'["A"]
              id == call'.id
          IN  (/\ old.last_recv_packet_id # <<>>
               /\ \/ id = old.last_recv_packet_id[1]
                  \/ /\ IdsBehind(old, id) > ACK_BITFIELD_SIZE
                     /\ IdsBehind(old, id) < U16_MODULUS \div 2) =>
                  /\ new.last_recv_packet_id = old.last_recv_packet_id
                  /\ new.buffer = old.buffer
                  /\ GetBitfield(new) = GetBitfield(old)]_vars

\* C14 witness: with head 82 and bit 31 set (50 received), 49 arrives, 33 ids
\* behind: nothing changed
C14_Witness ==
    /\ call.op = "recv_packet"
    /\ call.id = 49
    /\ processed["A"] = {49, 50, 82}
    /\ recv_buffer["A"].last_recv_packet_id = <<82>>
    /\ GetBitfield(recv_buffer["A"]) = {31}

\* C15: recv_packet classifies an id by its distance modulo 65536 from the
\* head: 1..32768 ahead makes it the head, 1..32767 behind leaves the head and
\* within 32 sets bit d-1 (head 1, id 65534: bit 2); head 65535, id 0: the head
\* is 0 and bit 0 is set. No id makes recv_packet panic.
C15_CircularDistance ==
    [][call'.op \in {"recv_packet", "panic"} =>
          LET old == recv_buffer["A"]
              new == recv_buffer'["A"]
              id == call'.id
          IN  /\ call'.op # "panic"
              /\ old.last_recv_packet_id # <<>> =>
                     /\ IdsAhead(old, id) \in 1..(U16_MODULUS \div 2) =>
                            new.last_recv_packet_id = <<id>>
                     /\ IdsBehind(old, id) \in 0..(U16_MODULUS \div 2 - 1) =>
                            new.last_recv_packet_id = old.last_recv_packet_id
                     /\ (old.last_recv_packet_id = <<U16_MAX>> /\ id = 0) =>
                            /\ new.last_recv_packet_id = <<0>>
                            /\ 0 \in GetBitfield(new)
                     /\ (old.last_recv_packet_id = <<1>> /\ id = U16_MAX - 1) =>
                            /\ new.last_recv_packet_id = <<1>>
                            /\ 2 \in GetBitfield(new)]_vars

\* C15 witness: 65535, then 0 (one ahead across the wrap), then 32768, exactly
\* 32768 ids from the head 0: it became the head and nothing panicked
C15_Witness ==
    /\ call.op = "recv_packet"
    /\ call.id = 32768
    /\ processed["A"] = {0, 65535, 32768}
    /\ recv_buffer["A"].last_recv_packet_id = <<32768>>
    /\ GetBitfield(recv_buffer["A"]) = {}

\* ------------------------------------------------------------ claims on the manager's bookkeeping

\* C19: the header prepare_send_packet_header returns carries the receive
\* buffer's last_recv_packet_id (65535 when there is none) and one bit per
\* entry of the buffer, the entry pushed last as bit 0; the call leaves the
\* receive buffer and the manager's current time unchanged.
C19_HeaderReflectsReceiveState ==
    [][call'.op = "prepare_send_packet_header" =>
          LET p == call'.peer
              rb == recv_buffer[p]
              header == outgoing_header'[1]
          IN  /\ header.last_ack_packet_id =
                     IF rb.last_recv_packet_id = <<>>
                     THEN 65535 ELSE rb.last_recv_packet_id[1]
              /\ \A i \in 0..31 :
                     (i \in header.ack_bitfield) <=> rb.buffer[32 - i]
              /\ recv_buffer'[p] = rb
              /\ current_time'[p] = current_time[p]]_vars

\* C19 witness: a header built after packets 1 and 2 were received, at a time
\* other than 0: it acks 2 and bit 0 stands for 1
C19_Witness ==
    /\ call.op = "prepare_send_packet_header"
    /\ recv_buffer["A"].last_recv_packet_id = <<2>>
    /\ outgoing_header[1].last_ack_packet_id = 2
    /\ outgoing_header[1].ack_bitfield = {0}
    /\ current_time["A"] > 0

\* C20: as long as no id was allocated again while still in the sent-unacked
\* set, packets counted sent = counted acked + counted lost + size of the
\* sent-unacked set, and every packet sent (under any id) is in exactly one of
\* the states unacked, acked, lost.
C20_AccountingConserved ==
    \A p \in Peers :
        overwritten[p] = {} =>
            /\ stats[p].sent = stats[p].acked + stats[p].lost
                                 + Cardinality(DOMAIN sent_packets_not_acked[p])
            /\ \A id \in DOMAIN sent_count[p] :
                   sent_count[p][id] =
                       Count(acked_count[p], id) + Count(lost_count[p], id)
                         + (IF id \in DOMAIN sent_packets_not_acked[p] THEN 1 ELSE 0)
            /\ DOMAIN sent_packets_not_acked[p] \subseteq DOMAIN sent_count[p]

\* C20 witness: three packets sent, one acked, one lost, one still unacked
C20_Witness ==
    /\ overwritten["A"] = {}
    /\ stats["A"].sent = 3
    /\ stats["A"].acked = 1
    /\ stats["A"].lost = 1
    /\ Cardinality(DOMAIN sent_packets_not_acked["A"]) = 1

\* ------------------------------------------------------------ claims on the channel and the encoding

\* C16: when the send-queue depth (255) is reached, buffer_send rejects the
\* message and the caller gets an error outcome: the message is neither
\* dropped silently nor accepted, and the depth never exceeds 255; below the
\* depth the message is queued.
C16_BackpressureRejects ==
    [][call'.op = "buffer_send" =>
          /\ Depth(chan) >= MAX_SEND_PACKET_QUEUE_SIZE =>
                 /\ chan'.result = "rejected"
                 /\ chan'.unsent = chan.unsent
          /\ Depth(chan) < MAX_SEND_PACKET_QUEUE_SIZE =>
                 /\ chan'.result # "rejected"
                 /\ chan'.unsent = Append(chan.unsent, call'.id)
          /\ Depth(chan') <= MAX_SEND_PACKET_QUEUE_SIZE]_vars

\* C17: a header encoded and then decoded equals the original in every field.
C17_HeaderRoundTrip ==
    wire.read_header # <<>> =>
        LET header == wire.header[1]
            read_header == wire.read_header[1]
        IN  /\ read_header.packet_type = header.packet_type
            /\ read_header.packet_id = header.packet_id
            /\ read_header.last_ack_packet_id = header.last_ack_packet_id
            /\ read_header.ack_bitfield = header.ack_bitfield
            /\ read_header.tick = header.tick
            /\ read_header = header

\* C17 witness: the header of test_serde_header came back from its 11 bytes
C17_Witness ==
    /\ call.op = "decode"
    /\ Len(wire.bytes) = 11
    /\ wire.read_header =
           <<[packet_type |-> "Data", packet_id |-> 27, last_ack_packet_id |-> 13,
              ack_bitfield |-> {0, 1}, tick |-> 0]>>

\* the most offers a message can get before the clock of SpecReliable stops
MaxOffers == MaxChanTime \div RetransmitDelay + 1

\* message m was carried by a packet that has been acked
CarrierAcked(ch, m) ==
    /\ m \in DOMAIN ch.carried_by
    /\ ch.carried_by[m] \cap ch.acked # {}

\* C18: a message enqueued on the ordered-reliable channel and not acked is
\* offered by collect_messages_to_send whenever its retransmission timer has
\* elapsed, again and again until a packet that carried it is acked; from then
\* on no call of collect_messages_to_send offers it.
C18_ResendUntilAcked ==
    /\ [][call'.op = "collect_messages_to_send" =>
             /\ \A m \in DOMAIN chan.in_flight :
                    (/\ ~CarrierAcked(chan, m)
                     /\ call'.now - chan.in_flight[m].last_sent >= RetransmitDelay)
                    => \E k \in DOMAIN chan'.offered : chan'.offered[k] = m
             /\ \A k \in DOMAIN chan'.offered : ~CarrierAcked(chan, chan'.offered[k])]_vars
    /\ \A m \in 1..MaxMessages : \A n \in 1..MaxOffers :
           (/\ m \in DOMAIN chan.in_flight
            /\ chan.offers[m] = n
            /\ chan.in_flight[m].last_sent + RetransmitDelay <= MaxChanTime)
           ~> (\/ CarrierAcked(chan, m)
               \/ m \in DOMAIN chan.offers /\ chan.offers[m] > n)

\* C18 witness: message 1 was offered three times, its copies rode on two
\* packets, the second one was acked, and the collect_messages_to_send that
\* followed a full retransmission delay later offered nothing
C18_Witness ==
    /\ call.op = "collect_messages_to_send"
    /\ chan.now >= 3 * RetransmitDelay
    /\ chan.offers = (1 :> 3)
    /\ chan.carried_by = (1 :> {0, 1})
    /\ chan.acked = {1}
    /\ chan.delivered = {1}
    /\ chan.offered = <<>>

\* ------------------------------------------------------------ claims on lost and acked, frames, assertions, the head

\* header acks id: as its last_ack_packet_id or through a bit of its bitfield
AcksId(header, id) ==
    \/ id = header.last_ack_packet_id
    \/ \E i \in 1..ACK_BITFIELD_SIZE :
           /\ (i - 1) \in header.ack_bitfield
           /\ id = WrappingSub(header.last_ack_packet_id, i)

\* C21: a packet is never both counted lost and reported newly acked: an id
\* update removed by expiry, and not allocated again since, is not in the list
\* process_recv_packet_header returns for a later header acking it and is not
\* counted acked; an id already acked is not counted lost by a later update.
C21_NeverLostAndAcked ==
    [][/\ call'.op = "process_recv_packet_header" =>
              LET p == call'.peer
              IN  /\ Range(newly_acked_packets') \cap expired[p] = {}
                  /\ \A id \in expired[p] :
                         Count(acked_count'[p], id) = Count(acked_count[p], id)
                  /\ stats'[p].acked = stats[p].acked + Len(newly_acked_packets')
       /\ call'.op = "update" =>
              LET p == call'.peer
              IN  \A id \in reported[p] :
                      /\ Count(lost_count'[p], id) = Count(lost_count[p], id)
                      /\ id \notin expired'[p]
       /\ \A p \in Peers :
              /\ expired'[p] \cap reported'[p] = {}
              /\ \A id \in DOMAIN sent_count'[p] :
                     Count(acked_count'[p], id) + Count(lost_count'[p], id)
                         <= sent_count'[p][id]]_vars

\* C21 witness: a header acking an id counted lost before (and not allocated
\* since) was processed; the list returned holds another id but not that one,
\* which stays counted lost once and acked never
C21_Witness ==
    /\ call.op = "process_recv_packet_header"
    /\ newly_acked_packets # <<>>
    /\ \E id \in expired["A"] :
           /\ AcksId(call.header, id)
           /\ id \notin Range(newly_acked_packets)
           /\ Count(lost_count["A"], id) = 1
           /\ Count(acked_count["A"], id) = 0

\* after is before without some of its entries, the others as they were
SubMap(after, before) ==
    /\ DOMAIN after \subseteq DOMAIN before
    /\ \A id \in DOMAIN after : after[id] = before[id]

\* C22: process_recv_packet_header leaves next_packet_id and the current time
\* unchanged, adds no entry to the sent-unacked set and keeps the send time of
\* the entries that remain; update leaves next_packet_id and the receive buffer
\* unchanged and only shrinks the sent-unacked set.
C22_ReceivingNeverAllocates ==
    [][/\ call'.op = "process_recv_packet_header" =>
              LET p == call'.peer
              IN  /\ next_packet_id'[p] = next_packet_id[p]
                  /\ current_time'[p] = current_time[p]
                  /\ SubMap(sent_packets_not_acked'[p], sent_packets_not_acked[p])
       /\ call'.op = "update" =>
              LET p == call'.peer
              IN  /\ next_packet_id'[p] = next_packet_id[p]
                  /\ recv_buffer'[p] = recv_buffer[p]
                  /\ SubMap(sent_packets_not_acked'[p], sent_packets_not_acked[p])]_vars

\* C22 witness: a header was processed that acked one packet and left another,
\* sent after the clock had moved, in the sent-unacked set; the receive buffer
\* took the header's id
C22_Witness ==
    /\ call.op = "process_recv_packet_header"
    /\ Len(newly_acked_packets) = 1
    /\ recv_buffer["A"].last_recv_packet_id = <<call.header.packet_id>>
    /\ \E id \in DOMAIN sent_packets_not_acked["A"] :
           /\ sent_packets_not_acked["A"][id] > 0
           /\ sent_packets_not_acked["A"][id] = current_time["A"]

\* C23: the internal assertions never fail: the receive ring buffer always
\* holds exactly 32 entries, so the lookup of the entry of a behind-by-d id in
\* recv_packet succeeds, get_bitfield_bit is only called with an index below
\* 32, and no call ends in a panic.
C23_AssertionsNeverFail ==
    /\ \A p \in Peers : Len(recv_buffer[p].buffer) = ACK_BITFIELD_SIZE
    /\ call.op = "process_recv_packet_header" =>
           \A i \in AckLoopRange : ~GetBitfieldBitPanics(i - 1)
    /\ call.op # "panic"

\* C23 witness: a header whose id is d behind the head (1 <= d <= 32) was
\* processed: the entry was found and set, and the bits of the header's
\* bitfield were read, one of them set
C23_Witness ==
    /\ call.op = "process_recv_packet_header"
    /\ call.header.ack_bitfield # {}
    /\ recv_buffer["A"].last_recv_packet_id # <<>>
    /\ LET d == PacketIdSub(recv_buffer["A"].last_recv_packet_id[1],
                            call.header.packet_id)
       IN  /\ d \in 1..ACK_BITFIELD_SIZE
           /\ (d - 1) \in GetBitfield(recv_buffer["A"])

\* the id a receiving call was given
ReceivedId(c) == IF c.op = "recv_packet" THEN c.id ELSE c.header.packet_id

\* a step keeps the head of every receive buffer or moves it forward: once set
\* it stays set, a change replaces it by an id circularly ahead (old - new is
\* negative), and a received id behind or equal to the head does not change it
HeadStepsForward ==
    \A p \in Peers :
        LET old == recv_buffer[p].last_recv_packet_id
            new == recv_buffer'[p].last_recv_packet_id
        IN  old # <<>> =>
                /\ new # <<>>
                /\ new # old => PacketIdSub(old[1], new[1]) < 0
                /\ (/\ call'.op \in {"recv_packet", "process_recv_packet_header"}
                    /\ call'.peer = p
                    /\ PacketIdSub(old[1], ReceivedId(call')) >= 0)
                   => new = old

\* the pairs of headers p built one after the other, as they are in the network
SuccessiveHeaders(p) ==
    {pair \in network \X network :
        /\ pair[1].src = p
        /\ pair[2].src = p
        /\ pair[2].header.packet_id = WrappingAdd(pair[1].header.packet_id, 1)}

\* C24 as stated: the head of the receive window only moves forward, and hence
\* the last_ack_packet_id of successive headers built by one manager never
\* moves backward in circular order.
C24_HeadOnlyMovesForward ==
    /\ [][HeadStepsForward]_vars
    /\ [](\A p \in Peers : \A pair \in SuccessiveHeaders(p) :
              PacketIdSub(pair[1].header.last_ack_packet_id,
                          pair[2].header.last_ack_packet_id) <= 0)

\* C24 amended: the head of the receive window only moves forward step by
\* step; the last_ack_packet_id of two successive headers does not move
\* backward when the earlier one was built after a packet was received and the
\* ids received when the later one is built lie on an arc of less than half
\* the id space; a header built before any packet was received carries 65535,
\* whatever the head becomes afterwards.
C24_HeadForwardWithinHalf ==
    /\ [][HeadStepsForward]_vars
    /\ [](\A p \in Peers : \A pair \in SuccessiveHeaders(p) :
              IF pair[1].seen = {}
              THEN pair[1].header.last_ack_packet_id = U16_MAX
              ELSE InHalfArc(pair[2].seen)
                   => PacketIdSub(pair[1].header.last_ack_packet_id,
                                  pair[2].header.last_ack_packet_id) <= 0)

\* C24 witness: the manager built a header with head 65534, received packets 1
\* and 0 (across the wrap, the second one behind the head) and built the next
\* header with head 1
C24_Witness ==
    \E pair \in SuccessiveHeaders("A") :
        /\ pair[1].seen = {U16_MAX - 1}
        /\ pair[1].header.last_ack_packet_id = U16_MAX - 1
        /\ pair[2].seen = {U16_MAX - 1, 0, 1}
        /\ pair[2].header.last_ack_packet_id = 1
        /\ pair[2].header.ack_bitfield = {0, 2}

====
